---------------------------- MODULE Spec2Model ----------------------------
(***************************************************************************)
(* checkcors: a command-line tool that issues one GET per URL of a list    *)
(* and checks the CORS headers of every response.                          *)
(*                                                                         *)
(* src/checkcors.go holds two revisions of the program:                    *)
(*   - the errgroup revision  (lines 1-136),  actions prefixed EG;         *)
(*   - the WaitGroup revision (lines 138-302), the current one.            *)
(*                                                                         *)
(* Specifications:                                                         *)
(*   Spec        the WaitGroup revision of run and its check goroutines    *)
(*   FairSpec    Spec with the scheduler's fairness (liveness)             *)
(*   SpecEG      the errgroup revision of run                              *)
(*   SpecLoad    loadURLs applied to every bounded file                    *)
(*   SpecHeaders checkHeaders applied to every bounded response header     *)
(***************************************************************************)
EXTENDS Naturals, Sequences, FiniteSets

\* ------------------------------------------------------------------ bounds

\* Most lines of a URL list file.
MaxLines == 2
\* Most characters of a line, for the files loadURLs is applied to alone.
MaxLineLen == 2
\* Most values one response header name carries.
MaxVals == 1

\* ------------------------------------------------------------ small helpers

SeqsUpTo(S, n) == UNION {[1..m -> S] : m \in 0..n}

\* ----------------------------------------------------------------- strings
\* A line of the file is a sequence of characters.  "a" and "b" stand for
\* URL text, " " for white space, "#" for the comment mark.

Chars == {"a", "b", " ", "#"}

IsSpace(c) == c = " "

RECURSIVE TrimLeft(_)
TrimLeft(s) ==
    IF s = <<>> THEN <<>>
    ELSE IF IsSpace(Head(s)) THEN TrimLeft(Tail(s))
    ELSE s

RECURSIVE TrimRight(_)
TrimRight(s) ==
    IF s = <<>> THEN <<>>
    ELSE IF IsSpace(s[Len(s)]) THEN TrimRight(SubSeq(s, 1, Len(s) - 1))
    ELSE s

\* strings.TrimSpace
TrimSpace(s) == TrimRight(TrimLeft(s))

\* -------------------------------------------------------------- URL source

\* The body of the scan loop for one line: the line is kept, untrimmed,
\* unless it is blank after trimming or its first non-blank character is #.
KeepLine(line) ==
    LET trimmed == TrimSpace(line)
    IN  IF trimmed = <<>> THEN FALSE
        ELSE IF trimmed[1] = "#" THEN FALSE
        ELSE TRUE

RECURSIVE ScanLoop(_, _, _)
ScanLoop(lines, j, acc) ==
    IF j > Len(lines) THEN acc
    ELSE ScanLoop(lines, j + 1,
                  IF KeepLine(lines[j]) THEN Append(acc, lines[j]) ELSE acc)

\* A faulty variant: the comment test looks at the line's first character instead of
\* the trimmed line's.
KeepLineRawHash(line) ==
    LET trimmed == TrimSpace(line)
    IN  IF trimmed = <<>> THEN FALSE
        ELSE IF line[1] = "#" THEN FALSE
        ELSE TRUE

RECURSIVE ScanLoopRawHash(_, _, _)
ScanLoopRawHash(lines, j, acc) ==
    IF j > Len(lines) THEN acc
    ELSE ScanLoopRawHash(lines, j + 1,
                  IF KeepLineRawHash(lines[j]) THEN Append(acc, lines[j]) ELSE acc)

loadURLsRawHash(status, lines) ==
    IF status = "openerr" THEN [urls |-> <<>>, err |-> "open"]
    ELSE IF status = "scanerr" THEN [urls |-> <<>>, err |-> "scan"]
    ELSE [urls |-> ScanLoopRawHash(lines, 1, <<>>), err |-> "nil"]

\* A faulty variant: the scanner's error is not looked at, the lines read so far are
\* returned.
loadURLsIgnoreScanErr(status, lines) ==
    IF status = "openerr" THEN [urls |-> <<>>, err |-> "open"]
    ELSE [urls |-> ScanLoop(lines, 1, <<>>), err |-> "nil"]

\* loadURLs(path).  status is what the file system does: "ok", "openerr"
\* (os.Open fails) or "scanerr" (the scanner stops with an error after
\* having yielded `lines`).  The result is Go's (urls, err); a nil slice is
\* the empty sequence.
loadURLs(status, lines) ==
    IF status = "openerr" THEN [urls |-> <<>>, err |-> "open"]
    ELSE IF status = "scanerr" THEN [urls |-> <<>>, err |-> "scan"]
    ELSE [urls |-> ScanLoop(lines, 1, <<>>), err |-> "nil"]

\* http.NewRequestWithContext fails on a URL that does not parse; the lines
\* are handed over untrimmed, and white space inside a URL does not parse.
ValidURL(url) == \A j \in 1..Len(url) : ~IsSpace(url[j])

\* ---------------------------------------------------------- response headers

MethodsName == "Access-Control-Allow-Methods"
OriginName == "Access-Control-Allow-Origin"
\* The name the errgroup revision looks for.
AllowedMethodsName == "Access-Control-Allowed-Methods"

HeaderNames == {MethodsName, OriginName, AllowedMethodsName}

Values == {"GET", "*", "GET, POST"}

\* The expected response headers of the WaitGroup revision.
Expect == [n \in {MethodsName, OriginName} |->
               IF n = MethodsName THEN "GET" ELSE "*"]

\* The expected response headers of the errgroup revision.
ExpectEG == [n \in {AllowedMethodsName, OriginName} |->
               IF n = AllowedMethodsName THEN "GET" ELSE "*"]

\* http.Header.Get: the first value of the name, "" when there is none.
\* A header is a function from the (canonical) names to their values.
Get(h, name) == IF h[name] = <<>> THEN "" ELSE h[name][1]

\* The orders in which a range over the map may visit its entries.
Orders(expect) ==
    {o \in [1..Cardinality(DOMAIN expect) -> DOMAIN expect] :
        \A x, y \in DOMAIN o : x # y => o[x] # o[y]}

LogEntry(url, name, val, actual) ==
    [url |-> url, header |-> name, expected |-> val, got |-> actual]

\* A faulty variant: the loop stops at the first mismatch.
RECURSIVE HeaderLoopBreak(_, _, _, _, _, _, _)
HeaderLoopBreak(url, h, expect, order, j, ok, logs) ==
    IF j > Len(order) THEN [ok |-> ok, logs |-> logs]
    ELSE LET name == order[j]
             val == expect[name]
             actual == Get(h, name)
         IN  IF actual # val
             THEN [ok |-> FALSE,
                   logs |-> Append(logs, LogEntry(url, name, val, actual))]
             ELSE HeaderLoopBreak(url, h, expect, order, j + 1, ok, logs)

checkHeadersBreak(url, h, expect, order) ==
    HeaderLoopBreak(url, h, expect, order, 1, TRUE, <<>>)

\* The range loop of checkHeaders, visiting the entries in `order`.
RECURSIVE HeaderLoop(_, _, _, _, _, _, _)
HeaderLoop(url, h, expect, order, j, ok, logs) ==
    IF j > Len(order) THEN [ok |-> ok, logs |-> logs]
    ELSE LET name == order[j]
             val == expect[name]
             actual == Get(h, name)
         IN  IF actual # val
             THEN HeaderLoop(url, h, expect, order, j + 1, FALSE,
                             Append(logs, LogEntry(url, name, val, actual)))
             ELSE HeaderLoop(url, h, expect, order, j + 1, ok, logs)

\* checkHeaders(url, h, expect) of the WaitGroup revision: the result and the
\* mismatch log entries it emits.
checkHeaders(url, h, expect, order) ==
    HeaderLoop(url, h, expect, order, 1, TRUE, <<>>)

\* checkHeaders(h, expect) of the errgroup revision: errors.Join of one error
\* per mismatch, nil when there is none.
checkHeadersEG(h, expect, order) ==
    IF HeaderLoop(<<>>, h, expect, order, 1, TRUE, <<>>).ok
    THEN "nil" ELSE "header mismatch"

\* ------------------------------------------------------------------- errors

NilErr == "nil"
CreateErr == "create request"
PerformErr == "perform request: transport"
PerformCanceled == "perform request: context canceled"
BodyErr == "read body: transport"
BodyCanceled == "read body: context canceled"

IsCanceled(err) == err \in {PerformCanceled, BodyCanceled}

\* ------------------------------------------------------------------ network
\* What the network does with a request that is left alone: it fails the
\* exchange (refused, DNS, the client's 30 s timeout), or it delivers a
\* response header, and then the body or a read error.

NoHeader == [n \in HeaderNames |-> <<>>]

\* Both revisions accept it.
AllHdr == [n \in HeaderNames |-> IF n = OriginName THEN <<"*">> ELSE <<"GET">>]

\* The origin is right, the methods are not (neither revision accepts it).
BadMethodsHdr == [n \in HeaderNames |->
                    IF n = OriginName THEN <<"*">>
                    ELSE IF n = MethodsName THEN <<"GET, POST">>
                    ELSE <<>>]

\* The response headers a server of a run may send.
RunResponses == {AllHdr, BadMethodsHdr}

\* The lines the files of a run are made of: a blank line, a comment, two
\* URLs, and a URL followed by white space.
RunLines == {<<>>, <<"#", "a">>, <<"a">>, <<"b">>, <<"a", " ">>}

\* -------------------------------------------------------------------- state

VARIABLES
    rev,          \* the revision being run: "waitgroup" or "errgroup"
    cfg,          \* the command line: "ok", "nourls", "badjson"
    fileStatus,   \* what the file system does with the URL file
    file,         \* the lines the scanner yields
    urls,         \* run's urls
    runpc,        \* where run (and main) is
    i,            \* the range loop: index of the next URL to launch
    wg,           \* the WaitGroup's counter
    hadError,     \* the atomic.Bool
    chk,          \* one record per launched goroutine
    ctxCancelled, \* main's context (signal.NotifyContext) is done
    egCancelled,  \* errgroup revision: the group's derived context is cancelled
    egErr,        \* errgroup revision: the group's first error
    result,       \* run's return value
    exitCode,     \* the process exit status, read once runpc is "exited"
    hdrIn,        \* SpecHeaders: the header and iteration order checked
    hdrOut,       \* SpecHeaders: the result of checkHeaders
    loadOut       \* SpecLoad: the result of loadURLs

vars == <<rev, cfg, fileStatus, file, urls, runpc, i, wg, hadError, chk,
          ctxCancelled, egCancelled, egErr, result, exitCode,
          hdrIn, hdrOut, loadOut>>

pureVars == <<hdrIn, hdrOut, loadOut>>
inputVars == <<rev, cfg, fileStatus, file>>

NoResult == "none"
NoOut == [ok |-> TRUE, logs |-> <<>>, done |-> FALSE]
NoHdrIn == [h |-> NoHeader, order |-> <<>>]
NoLoad == [urls |-> <<>>, err |-> "none"]

\* A goroutine just launched; rsp is the header of the response Check holds
\* between Do and its return.
NewCheck ==
    [pc |-> "start", url |-> <<>>, rsp |-> NoHeader, ok |-> FALSE,
     err |-> NilErr, logs |-> <<>>, errlog |-> FALSE, drained |-> FALSE]

Returned == {"ret", "defer", "done"}

\* The state before run starts.
RunIdle ==
    /\ urls = <<>>
    /\ i = 1
    /\ wg = 0
    /\ hadError = FALSE
    /\ chk = <<>>
    /\ ctxCancelled = FALSE
    /\ egCancelled = FALSE
    /\ egErr = NilErr
    /\ result = NoResult
    /\ exitCode = 0

InitRun(r) ==
    /\ rev = r
    /\ cfg \in {"ok", "nourls", "badjson"}
    /\ fileStatus \in {"ok", "openerr", "scanerr"}
    /\ file \in SeqsUpTo(RunLines, MaxLines)
    /\ runpc = "config"
    /\ RunIdle
    /\ hdrIn = NoHdrIn
    /\ hdrOut = NoOut
    /\ loadOut = NoLoad

Init == InitRun("waitgroup")

\* ------------------------------------------------ WaitGroup revision: Check

\* The url the goroutine's closure reads.  The loop variable is per iteration
\* (Go 1.22), so the k-th closure reads the k-th URL whatever the loop does
\* meanwhile.
ClosureURLShared(k, loopIdx) == urls[loopIdx - 1]

ClosureURL(k, loopIdx) == urls[k]

\* A faulty variant: the checks get a context that is never cancelled.
CtxDoneNever(c) == FALSE

\* Whether the context handed to Check is done: it is main's context.
CtxDone(c) == c

\* A faulty variant: a header mismatch is returned as an error.
HeaderResultAsErr(ok) ==
    [ok |-> ok, err |-> IF ok THEN NilErr ELSE "header mismatch"]

\* Check's last return: the result of checkHeaders and a nil error.
HeaderResult(ok) == [ok |-> ok, err |-> NilErr]

Return(k, ok, err, logs, drained) ==
    chk' = [chk EXCEPT ![k].pc = "ret", ![k].ok = ok, ![k].err = err,
                       ![k].logs = logs, ![k].drained = drained,
                       ![k].rsp = NoHeader]

\* The goroutine calls Check, which builds the request.
CheckNewRequest(k) ==
    /\ k \in 1..Len(chk)
    /\ chk[k].pc = "start"
    /\ LET url == ClosureURL(k, i)
       IN  IF ~ValidURL(url)
           THEN chk' = [chk EXCEPT ![k].pc = "ret", ![k].url = url,
                                   ![k].ok = FALSE, ![k].err = CreateErr,
                                   ![k].rsp = NoHeader]
           ELSE chk' = [chk EXCEPT ![k].pc = "do", ![k].url = url]
    /\ UNCHANGED <<inputVars, urls, runpc, i, wg, hadError, ctxCancelled,
                   egCancelled, egErr, result, exitCode, pureVars>>

\* c.Client.Do(req).  The step is the moment the exchange is decided: the
\* response's header has arrived, the transport has given up, or the context
\* was found done.
CheckDo(k) ==
    /\ k \in 1..Len(chk)
    /\ chk[k].pc = "do"
    /\ IF CtxDone(ctxCancelled)
       THEN Return(k, FALSE, PerformCanceled, <<>>, FALSE)
       ELSE \/ Return(k, FALSE, PerformErr, <<>>, FALSE)
            \/ \E h \in RunResponses :
                  chk' = [chk EXCEPT ![k].pc = "drain", ![k].rsp = h]
    /\ UNCHANGED <<inputVars, urls, runpc, i, wg, hadError, ctxCancelled,
                   egCancelled, egErr, result, exitCode, pureVars>>

\* io.Copy(io.Discard, rsp.Body), then checkHeaders.  The step is the moment
\* the end of the body arrives (a body that had arrived before an interrupt
\* is a drain before it).
CheckDrain(k) ==
    /\ k \in 1..Len(chk)
    /\ chk[k].pc = "drain"
    /\ IF CtxDone(ctxCancelled)
       THEN Return(k, FALSE, BodyCanceled, <<>>, FALSE)
       ELSE \/ Return(k, FALSE, BodyErr, <<>>, FALSE)
            \/ \E order \in Orders(Expect) :
                  LET r == checkHeaders(chk[k].url, chk[k].rsp, Expect, order)
                      res == HeaderResult(r.ok)
                  IN  Return(k, res.ok, res.err, r.logs, TRUE)
    /\ UNCHANGED <<inputVars, urls, runpc, i, wg, hadError, ctxCancelled,
                   egCancelled, egErr, result, exitCode, pureVars>>

\* ------------------------------------------- WaitGroup revision: goroutine

\* A faulty variant: only an error sets the flag.
FlagAfterErrOnly(ok, err, cur) == IF err # NilErr THEN TRUE ELSE cur

\* A faulty variant: the flag is stored whatever the outcome.
FlagAfterOverwrite(ok, err, cur) == ~ok \/ err # NilErr

\* The flag after `if !ok || err != nil { hadError.Store(true) }`.
FlagAfter(ok, err, cur) == IF ~ok \/ err # NilErr THEN TRUE ELSE cur

\* After Check: log the error, set the flag.
GoHandle(k) ==
    /\ k \in 1..Len(chk)
    /\ chk[k].pc = "ret"
    /\ chk' = [chk EXCEPT ![k].pc = "defer",
                          ![k].errlog = (chk[k].err # NilErr)]
    /\ hadError' = FlagAfter(chk[k].ok, chk[k].err, hadError)
    /\ UNCHANGED <<inputVars, urls, runpc, i, wg, ctxCancelled,
                   egCancelled, egErr, result, exitCode, pureVars>>

\* defer wg.Done()
GoDone(k) ==
    /\ k \in 1..Len(chk)
    /\ chk[k].pc = "defer"
    /\ chk' = [chk EXCEPT ![k].pc = "done"]
    /\ wg' = wg - 1
    /\ UNCHANGED <<inputVars, urls, runpc, i, hadError, ctxCancelled,
                   egCancelled, egErr, result, exitCode, pureVars>>

CheckStep(k) ==
    \/ CheckNewRequest(k)
    \/ CheckDo(k)
    \/ CheckDrain(k)
    \/ GoHandle(k)
    \/ GoDone(k)

\* ------------------------------------------------- WaitGroup revision: run

\* flag.Parse, the -urls test, the request headers file.
RunConfig ==
    /\ runpc = "config"
    /\ IF cfg = "nourls"
       THEN /\ runpc' = "exited"
            /\ exitCode' = 2
            /\ UNCHANGED result
       ELSE IF cfg = "badjson"
       THEN /\ runpc' = "returned"
            /\ result' = "load request headers"
            /\ UNCHANGED exitCode
       ELSE /\ runpc' = "load"
            /\ UNCHANGED <<result, exitCode>>
    /\ UNCHANGED <<inputVars, urls, i, wg, hadError, chk, ctxCancelled,
                   egCancelled, egErr, pureVars>>

\* urls, err := loadURLs(*urlfile)
RunLoad ==
    /\ runpc = "load"
    /\ LET r == loadURLs(fileStatus, file)
       IN  IF r.err # "nil"
           THEN /\ runpc' = "returned"
                /\ result' = "load URLs"
                /\ UNCHANGED urls
           ELSE /\ runpc' = "add"
                /\ urls' = r.urls
                /\ UNCHANGED result
    /\ UNCHANGED <<inputVars, i, wg, hadError, chk, ctxCancelled,
                   egCancelled, egErr, exitCode, pureVars>>

\* wg.Add(len(urls))
RunAdd ==
    /\ runpc = "add"
    /\ wg' = wg + Len(urls)
    /\ runpc' = "go"
    /\ UNCHANGED <<inputVars, urls, i, hadError, chk, ctxCancelled,
                   egCancelled, egErr, result, exitCode, pureVars>>

\* One iteration of the range loop: launch the goroutine of urls[i]; the loop
\* ends after the last URL.
RunGo ==
    /\ runpc = "go"
    /\ IF i <= Len(urls)
       THEN /\ chk' = Append(chk, NewCheck)
            /\ i' = i + 1
            /\ UNCHANGED runpc
       ELSE /\ runpc' = "wait"
            /\ UNCHANGED <<chk, i>>
    /\ UNCHANGED <<inputVars, urls, wg, hadError, ctxCancelled,
                   egCancelled, egErr, result, exitCode, pureVars>>

\* A faulty variant: run does not wait.
WaitReturnsAtOnce(counter) == TRUE

\* wg.Wait() returns when the counter is zero.
WaitReturns(counter) == counter = 0

RunWait ==
    /\ runpc = "wait"
    /\ WaitReturns(wg)
    /\ runpc' = "read"
    /\ UNCHANGED <<inputVars, urls, i, wg, hadError, chk, ctxCancelled,
                   egCancelled, egErr, result, exitCode, pureVars>>

\* if hadError.Load() { return errors.New("unsuccessful") }; return nil
RunReturn ==
    /\ runpc = "read"
    /\ result' = IF hadError THEN "unsuccessful" ELSE "nil"
    /\ runpc' = "returned"
    /\ UNCHANGED <<inputVars, urls, i, wg, hadError, chk, ctxCancelled,
                   egCancelled, egErr, exitCode, pureVars>>

\* main: a returned error is logged and the process exits with status 1.
MainExit ==
    /\ runpc = "returned"
    /\ exitCode' = IF result = "nil" THEN 0 ELSE 1
    /\ runpc' = "exited"
    /\ UNCHANGED <<inputVars, urls, i, wg, hadError, chk, ctxCancelled,
                   egCancelled, egErr, result, pureVars>>

RunStep ==
    \/ RunConfig
    \/ RunLoad
    \/ RunAdd
    \/ RunGo
    \/ RunWait
    \/ RunReturn
    \/ MainExit

\* The operator interrupts the process: main's context is done.
Interrupt ==
    /\ runpc # "exited"
    /\ ~ctxCancelled
    /\ ctxCancelled' = TRUE
    /\ UNCHANGED <<inputVars, urls, runpc, i, wg, hadError, chk,
                   egCancelled, egErr, result, exitCode, pureVars>>

\* A step of the program: of run or of one of its goroutines.
Progress ==
    \/ RunStep
    \/ \E k \in 1..MaxLines : CheckStep(k)

Next ==
    \/ Progress
    \/ Interrupt

Spec == Init /\ [][Next]_vars

\* The Go scheduler keeps running the program while a goroutine can run, and
\* every request ends (the client's timeout is 30 s): the program does not
\* stop while one of its steps is possible.  The interrupt may never come.
FairSpec == Spec /\ WF_vars(Progress)

\* ------------------------------------------------------- errgroup revision
\* eg, ctx := errgroup.WithContext(ctx): the checks get the group's context,
\* which is done when main's is, and which the group cancels when a function
\* passed to Go returns an error (and when Wait returns).

CtxDoneEG(parent, group) == parent \/ group

EGCheckNewRequest(k) ==
    /\ k \in 1..Len(chk)
    /\ chk[k].pc = "start"
    /\ LET url == ClosureURL(k, i)
       IN  IF ~ValidURL(url)
           THEN chk' = [chk EXCEPT ![k].pc = "ret", ![k].url = url,
                                   ![k].ok = FALSE, ![k].err = CreateErr,
                                   ![k].rsp = NoHeader]
           ELSE chk' = [chk EXCEPT ![k].pc = "do", ![k].url = url]
    /\ UNCHANGED <<inputVars, urls, runpc, i, wg, hadError, ctxCancelled,
                   egCancelled, egErr, result, exitCode, pureVars>>

EGCheckDo(k) ==
    /\ k \in 1..Len(chk)
    /\ chk[k].pc = "do"
    /\ IF CtxDoneEG(ctxCancelled, egCancelled)
       THEN Return(k, FALSE, PerformCanceled, <<>>, FALSE)
       ELSE \/ Return(k, FALSE, PerformErr, <<>>, FALSE)
            \/ \E h \in RunResponses :
                  chk' = [chk EXCEPT ![k].pc = "drain", ![k].rsp = h]
    /\ UNCHANGED <<inputVars, urls, runpc, i, wg, hadError, ctxCancelled,
                   egCancelled, egErr, result, exitCode, pureVars>>

\* io.Copy(io.Discard, rsp.Body), then checkHeaders, whose error is Check's.
EGCheckDrain(k) ==
    /\ k \in 1..Len(chk)
    /\ chk[k].pc = "drain"
    /\ IF CtxDoneEG(ctxCancelled, egCancelled)
       THEN Return(k, FALSE, BodyCanceled, <<>>, FALSE)
       ELSE \/ Return(k, FALSE, BodyErr, <<>>, FALSE)
            \/ \E order \in Orders(ExpectEG) :
                  LET err == checkHeadersEG(chk[k].rsp, ExpectEG, order)
                  IN  Return(k, err = NilErr, err, <<>>, TRUE)
    /\ UNCHANGED <<inputVars, urls, runpc, i, wg, hadError, ctxCancelled,
                   egCancelled, egErr, result, exitCode, pureVars>>

\* The function passed to eg.Go returns: the group keeps its first error and
\* cancels its context.
EGGoReturn(k) ==
    /\ k \in 1..Len(chk)
    /\ chk[k].pc = "ret"
    /\ chk' = [chk EXCEPT ![k].pc = "defer"]
    /\ IF chk[k].err # NilErr /\ egErr = NilErr
       THEN /\ egErr' = chk[k].err
            /\ egCancelled' = TRUE
       ELSE UNCHANGED <<egErr, egCancelled>>
    /\ UNCHANGED <<inputVars, urls, runpc, i, wg, hadError, ctxCancelled,
                   result, exitCode, pureVars>>

\* The group's deferred done().
EGGoDone(k) ==
    /\ k \in 1..Len(chk)
    /\ chk[k].pc = "defer"
    /\ chk' = [chk EXCEPT ![k].pc = "done"]
    /\ wg' = wg - 1
    /\ UNCHANGED <<inputVars, urls, runpc, i, hadError, ctxCancelled,
                   egCancelled, egErr, result, exitCode, pureVars>>

EGCheckStep(k) ==
    \/ EGCheckNewRequest(k)
    \/ EGCheckDo(k)
    \/ EGCheckDrain(k)
    \/ EGGoReturn(k)
    \/ EGGoDone(k)

\* flag.Parse and the -urls test.
EGRunConfig ==
    /\ runpc = "config"
    /\ IF cfg = "nourls"
       THEN /\ runpc' = "exited"
            /\ exitCode' = 2
       ELSE /\ runpc' = "load"
            /\ UNCHANGED exitCode
    /\ UNCHANGED <<inputVars, urls, i, wg, hadError, chk, ctxCancelled,
                   egCancelled, egErr, result, pureVars>>

EGRunLoad ==
    /\ runpc = "load"
    /\ LET r == loadURLs(fileStatus, file)
       IN  IF r.err # "nil"
           THEN /\ runpc' = "returned"
                /\ result' = "load URLs"
                /\ UNCHANGED urls
           ELSE /\ runpc' = "go"
                /\ urls' = r.urls
                /\ UNCHANGED result
    /\ UNCHANGED <<inputVars, i, wg, hadError, chk, ctxCancelled,
                   egCancelled, egErr, exitCode, pureVars>>

\* One iteration of the range loop: eg.Go adds one to the group's counter
\* and launches the goroutine.
EGRunGo ==
    /\ runpc = "go"
    /\ IF i <= Len(urls)
       THEN /\ chk' = Append(chk, NewCheck)
            /\ wg' = wg + 1
            /\ i' = i + 1
            /\ UNCHANGED runpc
       ELSE /\ runpc' = "wait"
            /\ UNCHANGED <<chk, wg, i>>
    /\ UNCHANGED <<inputVars, urls, hadError, ctxCancelled,
                   egCancelled, egErr, result, exitCode, pureVars>>

\* return eg.Wait(): waits for the goroutines, cancels the group's context
\* and returns the first error.
EGRunWait ==
    /\ runpc = "wait"
    /\ wg = 0
    /\ egCancelled' = TRUE
    /\ result' = egErr
    /\ runpc' = "returned"
    /\ UNCHANGED <<inputVars, urls, i, wg, hadError, chk, ctxCancelled,
                   egErr, exitCode, pureVars>>

EGRunStep ==
    \/ EGRunConfig
    \/ EGRunLoad
    \/ EGRunGo
    \/ EGRunWait
    \/ MainExit

InitEG == InitRun("errgroup") /\ cfg # "badjson"

NextEG ==
    \/ EGRunStep
    \/ \E k \in 1..MaxLines : EGCheckStep(k)
    \/ Interrupt

SpecEG == InitEG /\ [][NextEG]_vars

\* ------------------------------------------------------- loadURLs, alone

\* The characters of the files loadURLs is applied to alone.
LoadChars == Chars \ {"b"}

InitLoad ==
    /\ rev = "waitgroup"
    /\ cfg = "ok"
    /\ fileStatus \in {"ok", "openerr", "scanerr"}
    /\ file \in SeqsUpTo(SeqsUpTo(LoadChars, MaxLineLen), MaxLines)
    /\ runpc = "pure"
    /\ RunIdle
    /\ hdrIn = NoHdrIn
    /\ hdrOut = NoOut
    /\ loadOut = NoLoad

ApplyLoad ==
    /\ runpc = "pure"
    /\ loadOut = NoLoad
    /\ loadOut' = loadURLs(fileStatus, file)
    /\ UNCHANGED <<inputVars, urls, runpc, i, wg, hadError, chk, ctxCancelled,
                   egCancelled, egErr, result, exitCode, hdrIn, hdrOut>>

SpecLoad == InitLoad /\ [][ApplyLoad]_vars

\* ----------------------------------------------------- checkHeaders, alone

AllHeaders == [HeaderNames -> SeqsUpTo(Values, MaxVals)]

InitHeaders ==
    /\ rev = "waitgroup"
    /\ cfg = "ok"
    /\ fileStatus = "ok"
    /\ file = <<>>
    /\ runpc = "pure"
    /\ RunIdle
    /\ hdrIn \in [h : AllHeaders, order : Orders(Expect)]
    /\ hdrOut = NoOut
    /\ loadOut = NoLoad

ApplyCheckHeaders ==
    /\ runpc = "pure"
    /\ ~hdrOut.done
    /\ LET r == checkHeaders(<<"a">>, hdrIn.h, Expect, hdrIn.order)
       IN  hdrOut' = [ok |-> r.ok, logs |-> r.logs, done |-> TRUE]
    /\ UNCHANGED <<inputVars, urls, runpc, i, wg, hadError, chk, ctxCancelled,
                   egCancelled, egErr, result, exitCode, hdrIn, loadOut>>

SpecHeaders == InitHeaders /\ [][ApplyCheckHeaders]_vars

\* ================================================================== claims

Finished == runpc \in {"returned", "exited"}

\* run got as far as its WaitGroup: the flags and both files were read.
Loaded == cfg = "ok" /\ fileStatus = "ok"

Failed(k) == ~chk[k].ok \/ chk[k].err # NilErr

NumDone == Cardinality({k \in 1..Len(chk) : chk[k].pc = "done"})

\* C1: once run has returned on a loaded URL list, every dispatched check has
\* its outcome, run returned "unsuccessful" exactly if some check ended with
\* headersOk = false or an error, nil exactly if every check ended (true,
\* nil), and an empty list dispatches nothing and returns nil.
C1_RunResult ==
    (Finished /\ Loaded) =>
        /\ result \in {"nil", "unsuccessful"}
        /\ \A k \in 1..Len(chk) : chk[k].pc \in Returned
        /\ (result = "unsuccessful") <=> (\E k \in 1..Len(chk) : Failed(k))
        /\ (result = "nil") <=>
               (\A k \in 1..Len(chk) : chk[k].ok /\ chk[k].err = NilErr)
        /\ (urls = <<>>) => (chk = <<>> /\ result = "nil")

\* run returned "unsuccessful" with one check passed and one failed on its
\* headers alone.
C1_Witness ==
    /\ Finished
    /\ result = "unsuccessful"
    /\ \E k1, k2 \in 1..Len(chk) :
          /\ chk[k1].ok /\ chk[k1].err = NilErr
          /\ ~chk[k2].ok /\ chk[k2].err = NilErr

\* C2: the counter is the number of URLs before any check is launched and
\* goes down by one per finished check; run reads the flag and returns only
\* when every dispatched check has finished; wg.Wait is the only place where
\* run can be blocked.
C2_JoinBeforeReturn ==
    /\ (runpc \in {"go", "wait"}) => (wg + NumDone = Len(urls))
    /\ (runpc = "go" /\ chk = <<>>) => (wg = Len(urls))
    /\ (runpc \in {"read", "returned", "exited"} /\ Loaded) =>
           /\ wg = 0
           /\ Len(chk) = Len(urls)
           /\ NumDone = Len(chk)
    /\ (runpc \in {"config", "load", "add", "go", "read", "returned"}) =>
           ENABLED RunStep

\* run has returned after two checks.
C2_Witness ==
    /\ runpc = "returned"
    /\ Len(chk) = 2
    /\ NumDone = 2

\* Whether the response header check k holds passes the header test of the
\* revision being run.
OwnHeadersOk(k) ==
    IF rev = "errgroup"
    THEN checkHeadersEG(chk[k].rsp, ExpectEG,
                        CHOOSE o \in Orders(ExpectEG) : TRUE) = NilErr
    ELSE checkHeaders(urls[k], chk[k].rsp, Expect,
                      CHOOSE o \in Orders(Expect) : TRUE).ok

\* The outcomes a check at chk[k].pc can return with on its own account: they
\* depend on its own URL and on what the network does with its own request.
OwnOutcome(k, ok, err) ==
    IF chk[k].pc = "start" THEN ~ok /\ err = CreateErr /\ ~ValidURL(urls[k])
    ELSE IF chk[k].pc = "do" THEN ~ok /\ err = PerformErr
    ELSE \/ ~ok /\ err = BodyErr
         \/ /\ ok = OwnHeadersOk(k)
            /\ err = IF rev = "errgroup" /\ ~ok THEN "header mismatch"
                     ELSE NilErr

\* C3: as long as main's context is not cancelled, every check returns with
\* an outcome of its own (never with a context-cancellation error), whatever
\* its siblings ended with.
C3_SiblingIsolation ==
    [][\A k \in 1..Len(chk) :
          (chk[k].pc \notin Returned /\ chk'[k].pc \in Returned
             /\ ~ctxCancelled) =>
              OwnOutcome(k, chk'[k].ok, chk'[k].err)]_vars

\* The lines of the file that hold a URL.
YieldedURLs == ScanLoop(file, 1, <<>>)

ScanFailed == cfg = "ok" /\ fileStatus = "scanerr"

C5_CheckErrorKinds ==
    \A k \in 1..Len(chk) :
        chk[k].pc \in Returned =>
            /\ (chk[k].err # NilErr) =>
                   (~chk[k].ok /\ ~chk[k].drained /\ chk[k].logs = <<>>)
            /\ chk[k].drained <=> (chk[k].err = NilErr)
            /\ (chk[k].logs # <<>>) => (~chk[k].ok /\ chk[k].err = NilErr)
            /\ ~(chk[k].ok /\ chk[k].err # NilErr)
            /\ (chk[k].err = CreateErr) <=> ~ValidURL(chk[k].url)
            /\ (chk[k].err \in {PerformErr, PerformCanceled, BodyErr,
                                BodyCanceled, CreateErr, NilErr})
            /\ chk[k].rsp = NoHeader

\* One check ended on a header mismatch, another on a transport error.
C5_Witness ==
    \E k1, k2 \in 1..Len(chk) :
        /\ chk[k1].pc \in Returned /\ chk[k1].err = NilErr /\ ~chk[k1].ok
        /\ chk[k1].logs # <<>>
        /\ chk[k2].pc \in Returned /\ chk[k2].err = PerformErr

\* C6: run launches one check per URL, in list order, and the k-th check is
\* invoked with the k-th URL.
C6_EachURLOnce ==
    /\ Len(chk) <= Len(urls)
    /\ (runpc = "go") => (Len(chk) = i - 1)
    /\ \A k \in 1..Len(chk) : (chk[k].pc # "start") => (chk[k].url = urls[k])
    /\ (runpc \in {"wait", "read", "returned", "exited"} /\ Loaded) =>
           /\ Len(chk) = Len(urls)
           /\ runpc # "wait" => \A k \in 1..Len(chk) : chk[k].pc = "done"

\* Two different URLs, the first one checked after the second was launched.
C6_Witness ==
    /\ Len(chk) = 2
    /\ urls[1] # urls[2]
    /\ chk[1].pc = "done" /\ chk[2].pc = "done"
    /\ chk[1].url = urls[1] /\ chk[2].url = urls[2]

InFlight(k) == chk[k].pc \in {"do", "drain"}

\* C7: a check whose exchange ends while main's context is cancelled ends
\* with a context-cancellation error; a check that has returned keeps its
\* outcome; every error of a finished check is logged and has set the flag;
\* and once the context is cancelled with a check in flight, run returns,
\* "unsuccessful".
C7_CancelInFlight ==
    /\ [][\A k \in 1..Len(chk) :
            /\ (ctxCancelled /\ InFlight(k) /\ chk'[k].pc = "ret") =>
                   (IsCanceled(chk'[k].err) /\ ~chk'[k].ok)
            /\ (chk[k].pc \in Returned) =>
                   (chk'[k].ok = chk[k].ok /\ chk'[k].err = chk[k].err)]_vars
    /\ [](\A k \in 1..Len(chk) :
            (chk[k].pc \in {"defer", "done"} /\ chk[k].err # NilErr) =>
                (chk[k].errlog /\ hadError))
    /\ ((ctxCancelled /\ \E k \in 1..Len(chk) : InFlight(k))
          ~> (runpc = "exited" /\ result = "unsuccessful" /\ exitCode = 1
              /\ NumDone = Len(chk)))

\* After an interrupt run returned: one check had passed before it, another
\* was cut by it.
C7_Witness ==
    /\ ctxCancelled
    /\ runpc = "returned"
    /\ result = "unsuccessful"
    /\ \E k1, k2 \in 1..Len(chk) :
          /\ chk[k1].ok /\ chk[k1].err = NilErr
          /\ IsCanceled(chk[k2].err) /\ chk[k2].errlog

\* C8: the flag starts false and no step takes it from true to false.
C8_FlagMonotonic ==
    /\ ~hadError
    /\ [][(hadError => hadError') /\ (hadError' # hadError => hadError')]_vars

\* The flag is set, and a check that passed has been handled too.
C8_Witness ==
    /\ hadError
    /\ \E k1, k2 \in 1..Len(chk) :
          /\ chk[k1].pc = "done" /\ Failed(k1)
          /\ chk[k2].pc = "done" /\ ~Failed(k2)

\* The expected headers the response does not carry with the expected value.
Offending(h) ==
    {n \in DOMAIN Expect : h[n] = <<>> \/ h[n][1] # Expect[n]}

\* C9: checkHeaders emits one mismatch entry per expected header that is
\* missing or differs, naming the URL, the header, the expected and the
\* actual value, and returns true exactly if there is none.
C9_OneLogPerMismatch ==
    hdrOut.done =>
        /\ Len(hdrOut.logs) = Cardinality(Offending(hdrIn.h))
        /\ hdrOut.ok <=> (Offending(hdrIn.h) = {})
        /\ \A n \in Offending(hdrIn.h) :
              \E j \in 1..Len(hdrOut.logs) :
                  hdrOut.logs[j] =
                      [url |-> <<"a">>, header |-> n, expected |-> Expect[n],
                       got |-> IF hdrIn.h[n] = <<>> THEN "" ELSE hdrIn.h[n][1]]
        /\ hdrOut.ok => hdrOut.logs = <<>>

\* Both expected headers mismatch (one missing, one different): two entries.
C9_Witness ==
    /\ hdrOut.done
    /\ hdrIn.h[MethodsName] = <<"GET, POST">>
    /\ hdrIn.h[OriginName] = <<>>
    /\ Len(hdrOut.logs) = 2
    /\ ~hdrOut.ok

NonBlank(line) == \E j \in 1..Len(line) : ~IsSpace(line[j])

FirstNonSpace(line) ==
    line[CHOOSE j \in 1..Len(line) :
            ~IsSpace(line[j]) /\ \A m \in 1..(j - 1) : IsSpace(line[m])]

IsURLLine(line) == NonBlank(line) /\ FirstNonSpace(line) # "#"

\* C10: the URLs loadURLs returns are the lines of the file that are not
\* blank and whose first non-blank character is not #, each as often as in
\* the file, in file order and unchanged.
C10_LoadURLsFilter ==
    (loadOut.err = "nil") =>
        /\ loadOut.urls = SelectSeq(file, IsURLLine)
        /\ \A j \in 1..Len(loadOut.urls) : IsURLLine(loadOut.urls[j])

\* An indented comment is dropped, the same line is kept twice.
C10_Witness ==
    \/ /\ loadOut.err = "nil"
       /\ file = << <<" ", "#">>, <<"a", " ">> >>
       /\ loadOut.urls = << <<"a", " ">> >>
    \/ /\ loadOut.err = "nil"
       /\ file = << <<"a">>, <<"a">> >>
       /\ loadOut.urls = file

=============================================================================
